---- MODULE Spec2Model ----
(***************************************************************************)
(* The Item Service of src/server.js: an express application with four     *)
(* item routes backed by one mongoose collection, a /fast probe and a      *)
(* /metrics endpoint.  Each item handler is an async function: it runs     *)
(* synchronously up to its single awaited storage call (the Receive        *)
(* actions); its continuation runs when that call settles (the Complete    *)
(* actions).  The storage call                                             *)
(* is one atomic per-document operation of the collection.                 *)
(***************************************************************************)
EXTENDS Integers, Sequences, FiniteSets, TLC

\* ---------------------------------------------------------------- bounds
MaxId == 2          \* ObjectIds the driver can generate in one run
MaxClock == 2       \* largest reading of the millisecond clock

\* ---------------------------------------------------------------- inputs
\* Two handlers can be suspended on their storage call at once.
Slots == {"h1", "h2"}
\* The handler a client that waits for each response keeps using.
Client == "h1"
\* The names request bodies carry: under concurrent load, and from the client
\* that sends one request at a time.
Names == {"a", "b"}
ClientNames == Names \cup {"widget"}
\* A path parameter that does not cast to an ObjectId.
Malformed == 0
\* The values req.params.id can take: a malformed one and the well-formed ones.
ClientIds == {Malformed} \cup (1..MaxId)
\* Errors the storage layer can raise on its own (the environment).
StorageErrors == {"connection lost", "timed out"}
CastError == "Cast to ObjectId failed"
\* What a storage call can meet ("": no error): for the one-at-a-time client,
\* and under concurrent load.
Outcomes == {""} \cup StorageErrors
LoadOutcomes == {"", "timed out"}

VARIABLES
  items,      \* the collection, in storage order: a sequence of documents
  nextId,     \* the next ObjectId the driver generates
  reqs,       \* per handler slot: the request it serves and its response
  conc,       \* pairs of slots whose current requests were in flight together
  ranBefore,  \* <<s, t>>: s's storage call ran before t's (current requests)
  clock,      \* Date.now()
  clockBack,  \* the clock was set back since the last /fast call
  backBetween,\* the clock was set back between the last two /fast calls
  readAt,     \* the clock reading when /fast was last called
  fastPrev,   \* the /fast response before the last one (<<>> if none)
  fastLast,   \* the last /fast response (<<>> if none)
  metricsLast,\* the last /metrics response (<<>> if none)
  trace       \* observer: per scenario, the exchanges so far that follow it

itemVars == <<items, nextId, reqs, conc, ranBefore>>
probeVars == <<clock, clockBack, backBetween, readAt, fastPrev, fastLast,
               metricsLast>>
vars == <<items, nextId, reqs, conc, ranBefore, clock, clockBack, backBetween,
          readAt, fastPrev, fastLast, metricsLast, trace>>

\* ------------------------------------------------------- documents, bodies
Doc(id, name) == [id |-> id, name |-> name]
Ids(coll) == {coll[k].id : k \in DOMAIN coll}

\* A JSON response: the status, and the body's message, item(s) and error.
Response(status, message, data, error) ==
  [status |-> status, message |-> message, data |-> data, error |-> error]

\* A handler slot: the request it serves (route, id, and the body's name while
\* the request is in flight) and, once answered, the status and the error text
\* of the response, with what the storage call met: the error it raised,
\* whether the id named a document, whether the collection stayed as it was,
\* and the number of storage calls made.
Idle ==
  [pc |-> "idle", route |-> "", id |-> Malformed, name |-> "",
   status |-> 0, error |-> "", raised |-> "", present |-> FALSE,
   kept |-> TRUE, calls |-> 0]

NewReq(route, id, name) ==
  [Idle EXCEPT !.pc = "pending", !.route = route, !.id = id, !.name = name]

\* ------------------------------------------------------------ storage layer
\* item.save(): the document is inserted at the end of the collection.
Save(coll, doc) == Append(coll, doc)

\* Faulty variant of Find: findOne() in place of find().
Find_One(coll) == IF coll = <<>> THEN <<>> ELSE <<coll[1]>>

\* Item.find(): every document, in storage order.
Find(coll) == coll

\* The document with this _id, as a sequence of zero (null) or one document.
FindById(coll, id) == SelectSeq(coll, LAMBDA d : d.id = id)

\* Faulty variants of UpdateColl: the update is lost; the update is applied
\* to every document.
UpdateColl_Lost(coll, id, name) == coll

UpdateColl_All(coll, id, name) ==
  [k \in DOMAIN coll |-> [coll[k] EXCEPT !.name = name]]

\* Item.findByIdAndUpdate(id, {name}, {new: true}): the collection afterwards.
UpdateColl(coll, id, name) ==
  [k \in DOMAIN coll |->
     IF coll[k].id = id THEN [coll[k] EXCEPT !.name = name] ELSE coll[k]]

\* Faulty variant of DeleteColl: the document is found and not removed.
DeleteColl_Keep(coll, id) == coll

\* Item.findByIdAndDelete(id): the collection afterwards.
DeleteColl(coll, id) == SelectSeq(coll, LAMBDA d : d.id # id)

\* The error the storage call of a request raises, "" if none: an id that does
\* not cast is rejected before the query is sent, otherwise the environment
\* decides.
Raised(req, fault) ==
  IF req.route \in {"PUT", "DELETE"} /\ req.id = Malformed
  THEN CastError ELSE fault

\* ------------------------------------------------------------ the handlers
\* Each handler maps the collection, the request and the storage outcome to the
\* collection afterwards, the response and the number of storage calls made.
Result(coll, resp, calls) == [coll |-> coll, resp |-> resp, calls |-> calls]

\* Faulty variant of ServerError: an error is answered as a missing item.
ServerError_NotFound(err) == Response(404, "Item not found", <<>>, "")

ServerError(err) == Response(500, "", <<>>, err)

PostItem(coll, req, fault) ==
  LET item == Doc(req.id, req.name)
      err == Raised(req, fault)
  IN IF err = ""
     THEN Result(Save(coll, item), Response(201, "Item created", <<item>>, ""), 1)
     ELSE Result(coll, ServerError(err), 1)

GetItems(coll, req, fault) ==
  LET err == Raised(req, fault)
  IN IF err = ""
     THEN Result(coll, Response(200, "", Find(coll), ""), 1)
     ELSE Result(coll, ServerError(err), 1)

\* Faulty variant of PutItem: the update is an upsert.
PutItem_Upsert(coll, req, fault) ==
  LET err == Raised(req, fault)
      after == IF FindById(coll, req.id) = <<>>
               THEN Append(coll, Doc(req.id, req.name))
               ELSE UpdateColl(coll, req.id, req.name)
  IN IF err # "" THEN Result(coll, ServerError(err), 1)
     ELSE Result(after, Response(200, "Item updated", FindById(after, req.id), ""), 1)

PutItem(coll, req, fault) ==
  LET err == Raised(req, fault)
      after == UpdateColl(coll, req.id, req.name)
      item == FindById(after, req.id)
  IN IF err # "" THEN Result(coll, ServerError(err), 1)
     ELSE IF item = <<>>
     THEN Result(after, Response(404, "Item not found", <<>>, ""), 1)
     ELSE Result(after, Response(200, "Item updated", item, ""), 1)

\* Faulty variant of DeleteItem: the result of the storage call is not checked.
DeleteItem_NoCheck(coll, req, fault) ==
  LET err == Raised(req, fault)
  IN IF err # "" THEN Result(coll, ServerError(err), 1)
     ELSE Result(DeleteColl(coll, req.id), Response(200, "Item deleted", <<>>, ""), 1)

DeleteItem(coll, req, fault) ==
  LET err == Raised(req, fault)
      item == FindById(coll, req.id)
      after == DeleteColl(coll, req.id)
  IN IF err # "" THEN Result(coll, ServerError(err), 1)
     ELSE IF item = <<>>
     THEN Result(after, Response(404, "Item not found", <<>>, ""), 1)
     ELSE Result(after, Response(200, "Item deleted", <<>>, ""), 1)

Handle(coll, req, fault) ==
  CASE req.route = "POST" -> PostItem(coll, req, fault)
    [] req.route = "GET" -> GetItems(coll, req, fault)
    [] req.route = "PUT" -> PutItem(coll, req, fault)
    [] req.route = "DELETE" -> DeleteItem(coll, req, fault)

\* ------------------------------------------------------------- scenarios
\* The request sequences the observers follow.  A step gives the route and the
\* names the body may carry; PUT and DELETE steps address the id the first
\* step's response returned; empty: the sequence starts on an empty collection.
Step(route, names) == [route |-> route, names |-> names]

Scenarios ==
  [crud |-> [empty |-> TRUE,
             steps |-> << Step("POST", {"a"}), Step("PUT", {"b"}),
                          Step("GET", {""}), Step("DELETE", {""}),
                          Step("GET", {""}) >>],
   list |-> [empty |-> FALSE,
             steps |-> << Step("POST", {"widget"}), Step("GET", {""}) >>],
   remove |-> [empty |-> TRUE,
               steps |-> << Step("POST", ClientNames), Step("DELETE", {""}) >>]]

\* ------------------------------------------------------------------- Init
Init ==
  /\ items = <<>>
  /\ nextId = 1
  /\ reqs = [s \in Slots |-> Idle]
  /\ conc = {}
  /\ ranBefore = {}
  /\ clock = 0
  /\ clockBack = FALSE
  /\ backBetween = FALSE
  /\ readAt = 0
  /\ fastPrev = <<>>
  /\ fastLast = <<>>
  /\ metricsLast = <<>>
  /\ trace = [n \in DOMAIN Scenarios |-> <<>>]

\* ------------------------------------------- the handlers up to their await
\* A slot takes a new request when it is not suspended on a storage call.
Accept(s, req) ==
  /\ reqs[s].pc # "pending"
  /\ reqs' = [reqs EXCEPT ![s] = req]
  /\ conc' = {p \in conc : s \notin p}
               \cup {{s, t} : t \in {u \in Slots : u # s /\ reqs[u].pc = "pending"}}
  /\ ranBefore' = {p \in ranBefore : p[1] # s /\ p[2] # s}

\* The continuation of a handler: the storage call takes effect and the
\* response is sent.
Settle(s, fault) ==
  LET req == reqs[s]
      out == Handle(items, req, fault)
  IN /\ req.pc = "pending"
     /\ items' = out.coll
     /\ reqs' = [reqs EXCEPT ![s] =
                   [req EXCEPT !.pc = "done", !.name = "",
                               !.status = out.resp.status,
                               !.error = out.resp.error,
                               !.raised = Raised(req, fault),
                               !.present = req.id \in Ids(items),
                               !.kept = (out.coll = items),
                               !.calls = req.calls + out.calls]]
     /\ ranBefore' = ranBefore \cup
                       {<<t, s>> : t \in {u \in Slots : {u, s} \in conc
                                                       /\ reqs[u].pc = "done"}}
     /\ UNCHANGED <<nextId, conc>>

PostCore(s, n) ==
  /\ nextId <= MaxId
  /\ Accept(s, NewReq("POST", nextId, n))
  /\ nextId' = nextId + 1
  /\ UNCHANGED items

GetCore(s) ==
  /\ Accept(s, NewReq("GET", Malformed, ""))
  /\ UNCHANGED <<items, nextId>>

PutCore(s, i, n) ==
  /\ Accept(s, NewReq("PUT", i, n))
  /\ UNCHANGED <<items, nextId>>

DeleteCore(s, i) ==
  /\ Accept(s, NewReq("DELETE", i, ""))
  /\ UNCHANGED <<items, nextId>>

SettleCore(s, route, fault) ==
  /\ reqs[s].route = route
  /\ Settle(s, fault)

\* ------------------------------------------------- the concurrent service
\* The item routes under concurrent load.
ReceivePost == \E s \in Slots, n \in Names :
  PostCore(s, n) /\ UNCHANGED <<probeVars, trace>>

ReceiveGet == \E s \in Slots :
  GetCore(s) /\ UNCHANGED <<probeVars, trace>>

ReceivePut == \E s \in Slots, i \in ClientIds, n \in Names :
  PutCore(s, i, n) /\ UNCHANGED <<probeVars, trace>>

ReceiveDelete == \E s \in Slots, i \in ClientIds :
  DeleteCore(s, i) /\ UNCHANGED <<probeVars, trace>>

CompletePost == \E s \in Slots, f \in LoadOutcomes :
  SettleCore(s, "POST", f) /\ UNCHANGED <<probeVars, trace>>

CompleteGet == \E s \in Slots, f \in LoadOutcomes :
  SettleCore(s, "GET", f) /\ UNCHANGED <<probeVars, trace>>

CompletePut == \E s \in Slots, f \in LoadOutcomes :
  SettleCore(s, "PUT", f) /\ UNCHANGED <<probeVars, trace>>

CompleteDelete == \E s \in Slots, f \in LoadOutcomes :
  SettleCore(s, "DELETE", f) /\ UNCHANGED <<probeVars, trace>>

Next ==
  \/ ReceivePost
  \/ ReceiveGet
  \/ ReceivePut
  \/ ReceiveDelete
  \/ CompletePost
  \/ CompleteGet
  \/ CompletePut
  \/ CompleteDelete

Spec == Init /\ [][Next]_vars

\* --------------------------------------------- one request after another
\* A client that waits for each response before it sends the next request.
\* The observers record what it saw: an exchange is the request, the
\* response, the error the storage call raised and the collection before it.
Exchange(req, fault, pre) ==
  [route |-> req.route, id |-> req.id, name |-> req.name,
   resp |-> Handle(pre, req, fault).resp, raised |-> Raised(req, fault),
   pre |-> pre]

\* The id a response carries in its item, Malformed if it carries none.
ReturnedId(ex) ==
  IF ex.resp.data = <<>> THEN Malformed ELSE ex.resp.data[1].id

\* The exchange is the k-th request of the scenario, after the exchanges of
\* tr, and its storage call raised no error.
Matches(sc, tr, ex, k) ==
  /\ ex.raised = ""
  /\ ex.route = sc.steps[k].route
  /\ ex.name \in sc.steps[k].names
  /\ (k = 1 /\ sc.empty) => ex.pre = <<>>
  /\ ex.route \in {"PUT", "DELETE"} => ex.id = ReturnedId(tr[1])

Follow(sc, tr, ex) ==
  IF Len(tr) < Len(sc.steps) /\ Matches(sc, tr, ex, Len(tr) + 1)
  THEN Append(tr, ex)
  ELSE IF Matches(sc, <<>>, ex, 1) THEN <<ex>>
  ELSE <<>>

Observe(fault) ==
  LET ex == Exchange(reqs[Client], fault, items)
  IN trace' = [n \in DOMAIN Scenarios |-> Follow(Scenarios[n], trace[n], ex)]

ClientPost == \E n \in ClientNames :
  PostCore(Client, n) /\ UNCHANGED <<probeVars, trace>>

ClientGet ==
  GetCore(Client) /\ UNCHANGED <<probeVars, trace>>

ClientPut == \E i \in ClientIds, n \in ClientNames :
  PutCore(Client, i, n) /\ UNCHANGED <<probeVars, trace>>

ClientDelete == \E i \in ClientIds :
  DeleteCore(Client, i) /\ UNCHANGED <<probeVars, trace>>

ClientResponse == \E f \in Outcomes :
  Settle(Client, f) /\ Observe(f) /\ UNCHANGED probeVars

NextSerial ==
  \/ ClientPost
  \/ ClientGet
  \/ ClientPut
  \/ ClientDelete
  \/ ClientResponse

SpecSerial == Init /\ [][NextSerial]_vars

\* ------------------------------------------------------------ the probes
\* GET /fast: the handler is synchronous and reads the clock once.
\* Faulty variant of FastResponse: the clock is read once, at startup.
FastResponse_Startup(now) ==
  [status |-> 200, message |-> "Fast API Response", timestamp |-> 0]

FastResponse(now) ==
  [status |-> 200, message |-> "Fast API Response", timestamp |-> now]

Fast ==
  /\ fastPrev' = fastLast
  /\ fastLast' = <<FastResponse(clock)>>
  /\ readAt' = clock
  /\ backBetween' = clockBack
  /\ clockBack' = FALSE
  /\ UNCHANGED <<clock, metricsLast, itemVars, trace>>

\* Date.now() is the wall clock in milliseconds: it advances, and the system
\* can set it back.
Tick ==
  /\ clock < MaxClock
  /\ clock' = clock + 1
  /\ UNCHANGED <<clockBack, backBetween, readAt, fastPrev, fastLast,
                 metricsLast, itemVars, trace>>

SetBack == \E c \in 0..(clock - 1) :
  /\ clock' = c
  /\ clockBack' = TRUE
  /\ UNCHANGED <<backBetween, readAt, fastPrev, fastLast, metricsLast,
                 itemVars, trace>>

\* The metrics registered in client.register: the module creates no metric
\* and does not start the collection of the default ones.
Registry == <<>>

\* How register.metrics() ends the exposition of the metrics it holds: releases
\* of the library differ, and the repository pins none.
Renderings == {<<>>, <<"\n">>}

\* register.metrics(): one entry per registered metric, then the ending.
Exposition(reg, ending) == reg \o ending

MetricsResponse(reg, ending) ==
  [status |-> 200, contentType |-> "text/plain; version=0.0.4; charset=utf-8",
   body |-> Exposition(reg, ending)]

Metrics == \E ending \in Renderings :
  /\ metricsLast' = <<MetricsResponse(Registry, ending)>>
  /\ UNCHANGED <<clock, clockBack, backBetween, readAt, fastPrev, fastLast,
                 itemVars, trace>>

NextProbe ==
  \/ Fast
  \/ Tick
  \/ SetBack
  \/ Metrics

SpecProbe == Init /\ [][NextProbe]_vars

\* ================================================================ claims
Done(s) == reqs[s].pc = "done"

\* The number of documents of a collection that carry a name.
Named(coll, name) == Cardinality({k \in DOMAIN coll : coll[k].name = name})

\* ------------------------------------------------------------------- C1
\* What the scenario's k-th response must be, x being the id the POST returned.
ScenarioStatus == <<201, 200, 200, 200, 200>>

ScenarioData(k, x) ==
  CASE k = 1 -> <<Doc(x, "a")>>
    [] k = 2 -> <<Doc(x, "b")>>
    [] k = 3 -> <<Doc(x, "b")>>
    [] k = 4 -> <<>>
    [] k = 5 -> <<>>

\* C1: from an empty collection, with no storage error, POST a, PUT X b, GET,
\* DELETE X, GET answer 201 with {X, a}; 200 with {X, b}; 200 with the list
\* [{X, b}]; 200; 200 with the empty list, X being a well-formed id.
C1_Scenario ==
  \A k \in 1..Len(trace.crud) :
    /\ trace.crud[k].resp.status = ScenarioStatus[k]
    /\ trace.crud[k].resp.data = ScenarioData(k, ReturnedId(trace.crud[1]))
    /\ ReturnedId(trace.crud[1]) # Malformed

C1_Witness == Len(trace.crud) = Len(Scenarios.crud.steps)

\* ------------------------------------------------------------------- C2
\* C2 as stated: after POST widget then GET (no storage error), the list holds
\* exactly one item named widget, and its id was in the collection of no item
\* before the creation.
C2_ExactlyOneWidget ==
  Len(trace.list) = Len(Scenarios.list.steps) =>
    LET post == trace.list[1]
        listed == trace.list[Len(trace.list)].resp
    IN /\ listed.status = 200
       /\ Named(listed.data, "widget") = 1
       /\ \A k \in DOMAIN listed.data :
            listed.data[k].name = "widget" => listed.data[k].id \notin Ids(post.pre)

\* C2 amended: the list holds exactly one item with the id the creation
\* returned, that item is named widget, no item had that id before the
\* creation, and the list holds one more item named widget than the collection
\* held before.
C2_CreatedListedOnce ==
  Len(trace.list) = Len(Scenarios.list.steps) =>
    LET post == trace.list[1]
        listed == trace.list[Len(trace.list)].resp
        x == ReturnedId(post)
    IN /\ listed.status = 200
       /\ x # Malformed
       /\ x \notin Ids(post.pre)
       /\ Cardinality({k \in DOMAIN listed.data : listed.data[k].id = x}) = 1
       /\ \A k \in DOMAIN listed.data :
            listed.data[k].id = x => listed.data[k].name = "widget"
       /\ Named(listed.data, "widget") = Named(post.pre, "widget") + 1

C2_Witness ==
  /\ Len(trace.list) = Len(Scenarios.list.steps)
  /\ Named(trace.list[1].pre, "widget") > 0

\* ------------------------------------------------------------------- C5
\* C5: POST on an empty collection, then DELETE of the id it returned (no
\* storage error): the delete answers 200 and the collection is empty.
C5_CreateThenDelete ==
  Len(trace.remove) = Len(Scenarios.remove.steps) =>
    /\ trace.remove[Len(trace.remove)].resp.status = 200
    /\ items = <<>>

C5_Witness ==
  /\ Len(trace.remove) = Len(Scenarios.remove.steps)
  /\ trace.remove[1].resp.status = 201

\* ------------------------------------------------------------------- C8
\* C8: on every item route, a storage call that raises an error is answered
\* with 500 and the error's message, after a single storage call.
C8_ErrorIs500 ==
  \A s \in Slots :
    (Done(s) /\ reqs[s].raised # "") =>
      /\ reqs[s].status = 500
      /\ reqs[s].error = reqs[s].raised
      /\ reqs[s].calls = 1

C8_Witness ==
  /\ Done(Client)
  /\ reqs[Client].route = "DELETE"
  /\ reqs[Client].raised = "timed out"
  /\ reqs[Client].present

\* ------------------------------------------------------------------- C3
\* C3 as stated (the storage layer itself raising no error): a PUT whose id
\* names no item is answered 404 and leaves the collection as it was.
C3_AbsentIs404 ==
  \A s \in Slots :
    (Done(s) /\ reqs[s].route = "PUT" /\ ~reqs[s].present
       /\ reqs[s].raised \notin StorageErrors) =>
      /\ reqs[s].status = 404
      /\ reqs[s].kept

\* C3 amended: a PUT whose id names no item leaves the collection as it was;
\* it is answered 404 when the id is well-formed and the storage call raises
\* no error, and 500 with the cast error when the id is malformed.
C3_PutAbsent ==
  \A s \in Slots :
    (Done(s) /\ reqs[s].route = "PUT" /\ ~reqs[s].present) =>
      /\ reqs[s].kept
      /\ (reqs[s].id # Malformed /\ reqs[s].raised = "") => reqs[s].status = 404
      /\ reqs[s].id = Malformed =>
           (reqs[s].status = 500 /\ reqs[s].error = CastError)
      /\ reqs[s].raised # "" => reqs[s].status = 500

C3_Witness ==
  \E s \in Slots :
    /\ Done(s) /\ reqs[s].route = "PUT" /\ ~reqs[s].present
    /\ reqs[s].id # Malformed /\ reqs[s].raised = ""
    /\ reqs[s].status = 404
    /\ items # <<>>

\* ------------------------------------------------------------------- C4
\* C4 as stated (the storage layer itself raising no error): a DELETE whose id
\* names no item is answered 404 and leaves the collection as it was.
C4_AbsentIs404 ==
  \A s \in Slots :
    (Done(s) /\ reqs[s].route = "DELETE" /\ ~reqs[s].present
       /\ reqs[s].raised \notin StorageErrors) =>
      /\ reqs[s].status = 404
      /\ reqs[s].kept

\* C4 amended: a DELETE whose id names no item leaves the collection as it
\* was; it is answered 404 when the id is well-formed and the storage call
\* raises no error, and 500 with the cast error when the id is malformed.
C4_DeleteAbsent ==
  \A s \in Slots :
    (Done(s) /\ reqs[s].route = "DELETE" /\ ~reqs[s].present) =>
      /\ reqs[s].kept
      /\ (reqs[s].id # Malformed /\ reqs[s].raised = "") => reqs[s].status = 404
      /\ reqs[s].id = Malformed =>
           (reqs[s].status = 500 /\ reqs[s].error = CastError)
      /\ reqs[s].raised # "" => reqs[s].status = 500

C4_Witness ==
  \E s \in Slots :
    /\ Done(s) /\ reqs[s].route = "DELETE" /\ ~reqs[s].present
    /\ reqs[s].id # Malformed /\ reqs[s].raised = ""
    /\ reqs[s].status = 404
    /\ Len(items) > 1

\* ------------------------------------------------------------------- C9
\* C9: the step in which a PUT addressed to an existing item is answered keeps
\* the documents' ids and order, gives the addressed document the name of the
\* request body and leaves every other document as it was, and is answered
\* 200; if the storage call raises an error the collection stays as it was.
C9_PutFrame ==
  [][\A s \in Slots :
       (reqs[s].pc = "pending" /\ reqs[s].route = "PUT" /\ reqs'[s].pc = "done"
          /\ reqs[s].id \in Ids(items)) =>
         IF reqs'[s].raised = ""
         THEN /\ reqs'[s].status = 200
              /\ Len(items') = Len(items)
              /\ \A k \in DOMAIN items :
                   /\ items'[k].id = items[k].id
                   /\ items'[k].name = IF items[k].id = reqs[s].id
                                       THEN reqs[s].name ELSE items[k].name
         ELSE items' = items]_vars

C9_Witness ==
  \E s \in Slots :
    /\ Done(s) /\ reqs[s].route = "PUT" /\ reqs[s].present
    /\ reqs[s].raised = "" /\ ~reqs[s].kept
    /\ Len(items) > 1

\* ------------------------------------------------------------------ C10
\* Two answered requests that were in flight together, addressed the same id
\* and met no storage error, s's storage call running first and meeting the
\* item.
Raced(s, t) ==
  /\ s # t
  /\ {s, t} \in conc
  /\ Done(s) /\ Done(t)
  /\ reqs[s].id = reqs[t].id
  /\ reqs[s].raised = "" /\ reqs[t].raised = ""
  /\ <<s, t>> \in ranBefore
  /\ reqs[s].present

\* C10: of two such DELETEs the first is answered 200 and the second 404; of
\* a PUT and a DELETE the item is absent afterwards, and the PUT is answered
\* 200 if its storage call ran first and 404 if the DELETE's did.
C10_Serializable ==
  \A s, t \in Slots :
    Raced(s, t) =>
      /\ (reqs[s].route = "DELETE" /\ reqs[t].route = "DELETE") =>
           (reqs[s].status = 200 /\ reqs[t].status = 404)
      /\ (reqs[s].route = "PUT" /\ reqs[t].route = "DELETE") =>
           (reqs[s].status = 200 /\ reqs[s].id \notin Ids(items))
      /\ (reqs[s].route = "DELETE" /\ reqs[t].route = "PUT") =>
           (reqs[t].status = 404 /\ reqs[s].id \notin Ids(items))

C10_Witness ==
  \E s, t \in Slots :
    /\ Raced(s, t)
    /\ reqs[s].route = "DELETE" /\ reqs[t].route = "DELETE"
    /\ items # <<>>

\* ------------------------------------------------------------------- C6
\* C6 as stated (the clock not being set back between the calls): /fast
\* answers 200 with a numeric timestamp, greater than that of the call before.
C6_StrictlyIncreasing ==
  fastLast # <<>> =>
    /\ fastLast[1].status = 200
    /\ fastLast[1].timestamp \in Nat
    /\ (fastPrev # <<>> /\ ~backBetween) =>
         fastLast[1].timestamp > fastPrev[1].timestamp

\* C6 amended: /fast answers 200 with the clock's reading at the call, and
\* that of the call before is not greater unless the clock was set back.
C6_NonDecreasing ==
  fastLast # <<>> =>
    /\ fastLast[1].status = 200
    /\ fastLast[1].timestamp \in Nat
    /\ fastLast[1].timestamp = readAt
    /\ (fastPrev # <<>> /\ ~backBetween) =>
         fastLast[1].timestamp >= fastPrev[1].timestamp

C6_Witness ==
  /\ fastPrev # <<>> /\ fastLast # <<>> /\ ~backBetween
  /\ fastLast[1].timestamp = fastPrev[1].timestamp
  /\ clock > readAt

\* ------------------------------------------------------------------- C7
\* C7: every /metrics response has status 200 and a non-empty body.
C7_MetricsNonEmpty ==
  metricsLast # <<>> =>
    /\ metricsLast[1].status = 200
    /\ Len(metricsLast[1].body) > 0

====
